---------------------------- MODULE Spec2Model ----------------------------
(***************************************************************************)
(* Admission control of package maxconnections: a Middleware bounds the    *)
(* number of requests running the wrapped handler (channel running) and   *)
(* the number of requests waiting for a spot (channel queue).              *)
(*                                                                         *)
(* The repository holds two versions of Middleware.ServeHTTP:              *)
(*   "inline"          src/maxconnections/maxconnections.go, lines 57-115  *)
(*   "enqueueRunning"  src/unnamed/part_000, lines 225-269                 *)
(* A behaviour of the model runs one of them (variable impl).  Every       *)
(* request is a goroutine inside ServeHTTP; each channel operation, each   *)
(* timer operation and each handler call is one step.                      *)
(***************************************************************************)
EXTENDS Integers, FiniteSets, Sequences

\* Number of requests that arrive, at any time, in the behaviours of Spec.
NumRequests == 3
\* Number of requests that arrive in the behaviours of SpecScenario
\* (TestMaxConnections sends maxRunning+maxInQueue+1 = 6).
BurstRequests == 6
\* Largest maxRunning and maxInQueue handed to New.
MaxRunningBound == 2
MaxInQueueBound == 3

\* The requests (goroutines calling ServeHTTP).
Requests == 1..BurstRequests

\* The requests that take steps in Spec.
FreeRequests == {r \in Requests : r <= NumRequests}

Impls == {"inline", "enqueueRunning"}

\* Values of the field MaxWaitInQueue: 0 (no deadline) or a positive duration.
WaitValues == {0, 1}

VARIABLES
    impl,            \* which version of ServeHTTP runs
    maxRunning,      \* cap(m.running)
    maxInQueue,      \* cap(m.queue)
    MaxWaitInQueue,  \* m.MaxWaitInQueue
    running,         \* len(m.running)
    queue,           \* len(m.queue)
    pc,              \* position of each request inside ServeHTTP
    timer,           \* state of the request's time.Timer
    ctxDone,         \* whether r.Context().Done() is closed
    heldRunning,     \* elements of m.running sent and not yet received back, per request
    heldQueue,       \* elements of m.queue sent and not yet received back, per request
    handlerCalls,    \* calls of m.handler.ServeHTTP, per request
    overloadCalls,   \* calls of overloadHandler.ServeHTTP, per request
    panicked,        \* whether the request's handler call ended in a panic
    firedWhileFull,  \* whether the timer fired with the request queued and running full
    firedLate,       \* whether the timer fired after the request had left the third select
    queueOrder       \* the requests holding an element of m.queue, in the order they sent it

vars == <<impl, maxRunning, maxInQueue, MaxWaitInQueue, running, queue, pc,
          timer, ctxDone, heldRunning, heldQueue, handlerCalls, overloadCalls,
          panicked, firedWhileFull, firedLate, queueOrder>>

config == <<impl, maxRunning, maxInQueue, MaxWaitInQueue>>
ghost == <<handlerCalls, overloadCalls, panicked>>

Terminal == {"Completed", "RejectedImmediate", "RejectedTimeout", "RejectedCancelled"}

\* New(maxRunning, maxInQueue, h): both channels are empty; MaxWaitInQueue
\* is set by the caller before the first request.
Init ==
    /\ impl \in Impls
    /\ maxRunning \in 1..MaxRunningBound
    /\ maxInQueue \in 0..MaxInQueueBound
    /\ MaxWaitInQueue \in WaitValues
    /\ running = 0
    /\ queue = 0
    /\ pc = [r \in Requests |-> "Arrived"]
    /\ timer = [r \in Requests |-> "none"]
    /\ ctxDone = [r \in Requests |-> FALSE]
    /\ heldRunning = [r \in Requests |-> 0]
    /\ heldQueue = [r \in Requests |-> 0]
    /\ handlerCalls = [r \in Requests |-> 0]
    /\ overloadCalls = [r \in Requests |-> 0]
    /\ panicked = [r \in Requests |-> FALSE]
    /\ firedWhileFull = [r \in Requests |-> FALSE]
    /\ firedLate = [r \in Requests |-> FALSE]
    /\ queueOrder = <<>>


(***************************************************************************)
(* Go channel and timer operations.                                        *)
(***************************************************************************)

\* pc' after request r moves to label l.
Goto(r, l) == pc' = [pc EXCEPT ![r] = l]

\* m.running <- struct{}{} in a select: ready iff the buffer has room.
SendRunning(r) ==
    /\ running < maxRunning
    /\ running' = running + 1
    /\ heldRunning' = [heldRunning EXCEPT ![r] = @ + 1]

\* <-m.running: blocks while the buffer is empty.
RecvRunning(r) ==
    /\ running > 0
    /\ running' = running - 1
    /\ heldRunning' = [heldRunning EXCEPT ![r] = @ - 1]

\* m.queue <- struct{}{} in a select: ready iff the buffer has room.
SendQueue(r) ==
    /\ queue < maxInQueue
    /\ queue' = queue + 1
    /\ heldQueue' = [heldQueue EXCEPT ![r] = @ + 1]
    /\ queueOrder' = Append(queueOrder, r)

\* <-m.queue: blocks while the buffer is empty.
RecvQueue(r) ==
    /\ queue > 0
    /\ queue' = queue - 1
    /\ heldQueue' = [heldQueue EXCEPT ![r] = @ - 1]
    /\ queueOrder' = SelectSeq(queueOrder, LAMBDA s : s # r)

\* timer.Stop(): an armed timer never fires afterwards; a value already sent
\* on timer.C stays in the channel.
StopTimer(r) ==
    timer' = [timer EXCEPT ![r] = IF @ = "armed" THEN "stopped" ELSE @]

\* Mutant: the timer is made whatever MaxWaitInQueue is.
NewTimer_AlwaysArmed(r) ==
    timer' = [timer EXCEPT ![r] = "armed"]

\* newTimer(m.MaxWaitInQueue) when MaxWaitInQueue > 0; otherwise timeout is a
\* channel that never delivers (openTimeChannel, or a nil channel).
NewTimer(r) ==
    timer' = [timer EXCEPT ![r] = IF MaxWaitInQueue > 0 THEN "armed" ELSE "none"]

\* case <-timeout: ready iff the timer has sent on timer.C.
RecvTimeout(r) ==
    /\ timer[r] = "fired"
    /\ timer' = [timer EXCEPT ![r] = "received"]

(***************************************************************************)
(* Middleware.ServeHTTP, src/maxconnections/maxconnections.go              *)
(***************************************************************************)

\* Mutant: the fast path enters the handler without sending to m.running.
ServeHTTP_FastPath_NoSend(r) ==
    /\ impl = "inline"
    /\ pc[r] = "Arrived"
    /\ Goto(r, IF running < maxRunning THEN "AdmittedFast" ELSE "SlowPath")
    /\ UNCHANGED <<config, running, heldRunning, queue, queueOrder, timer,
                   ctxDone, firedWhileFull, firedLate, heldQueue, ghost>>

\* Mutant: the first select has no default case, so it waits for a spot.
ServeHTTP_FastPath_Blocking(r) ==
    /\ impl = "inline"
    /\ pc[r] = "Arrived"
    /\ SendRunning(r)
    /\ Goto(r, "AdmittedFast")
    /\ UNCHANGED <<config, queue, queueOrder, timer, ctxDone, firedWhileFull,
                   firedLate, heldQueue, ghost>>

\* Mutant: ServeHTTP returns at once when the request's context is done.
ServeHTTP_FastPath_ChecksContext(r) ==
    /\ impl = "inline"
    /\ pc[r] = "Arrived"
    /\ IF ctxDone[r]
       THEN /\ Goto(r, "RejectedCancelled")
            /\ UNCHANGED <<running, heldRunning>>
       ELSE IF running < maxRunning
       THEN /\ SendRunning(r)
            /\ Goto(r, "AdmittedFast")
       ELSE /\ Goto(r, "SlowPath")
            /\ UNCHANGED <<running, heldRunning>>
    /\ UNCHANGED <<config, queue, queueOrder, timer, ctxDone, firedWhileFull,
                   firedLate, heldQueue, ghost>>

\* First select: take a spot in running or fall through to the slow path.
ServeHTTP_FastPath(r) ==
    /\ impl = "inline"
    /\ pc[r] = "Arrived"
    /\ IF running < maxRunning
       THEN /\ SendRunning(r)
            /\ Goto(r, "AdmittedFast")
       ELSE /\ Goto(r, "SlowPath")
            /\ UNCHANGED <<running, heldRunning>>
    /\ UNCHANGED <<config, queue, queueOrder, timer, ctxDone, firedWhileFull,
                   firedLate, heldQueue, ghost>>

\* Mutant: the queue turns requests away one spot early.
ServeHTTP_Enqueue_OffByOne(r) ==
    /\ impl = "inline"
    /\ pc[r] = "SlowPath"
    /\ IF queue + 1 < maxInQueue
       THEN /\ SendQueue(r)
            /\ Goto(r, "Enqueued")
       ELSE /\ Goto(r, "OverloadImmediate")
            /\ UNCHANGED <<queue, queueOrder, heldQueue>>
    /\ UNCHANGED <<config, running, timer, ctxDone, firedWhileFull,
                   firedLate, heldRunning, ghost>>

\* Mutant: the queue channel is made with one element more than maxInQueue.
ServeHTTP_Enqueue_ExtraSpot(r) ==
    /\ impl = "inline"
    /\ pc[r] = "SlowPath"
    /\ IF queue < maxInQueue + 1
       THEN /\ queue' = queue + 1
            /\ heldQueue' = [heldQueue EXCEPT ![r] = @ + 1]
            /\ queueOrder' = Append(queueOrder, r)
            /\ Goto(r, "Enqueued")
       ELSE /\ Goto(r, "OverloadImmediate")
            /\ UNCHANGED <<queue, queueOrder, heldQueue>>
    /\ UNCHANGED <<config, running, timer, ctxDone, firedWhileFull,
                   firedLate, heldRunning, ghost>>

\* Second select: take a spot in queue or go to the overload handler.
ServeHTTP_Enqueue(r) ==
    /\ impl = "inline"
    /\ pc[r] = "SlowPath"
    /\ IF queue < maxInQueue
       THEN /\ SendQueue(r)
            /\ Goto(r, "Enqueued")
       ELSE /\ Goto(r, "OverloadImmediate")
            /\ UNCHANGED <<queue, queueOrder, heldQueue>>
    /\ UNCHANGED <<config, running, timer, ctxDone, firedWhileFull,
                   firedLate, heldRunning, ghost>>

\* overloadHandler.ServeHTTP(w, r) after the queue was found full.
ServeHTTP_OverloadImmediate(r) ==
    /\ impl = "inline"
    /\ pc[r] = "OverloadImmediate"
    /\ overloadCalls' = [overloadCalls EXCEPT ![r] = @ + 1]
    /\ Goto(r, "RejectedImmediate")
    /\ UNCHANGED <<config, running, queue, queueOrder, timer, ctxDone,
                   firedWhileFull, firedLate, heldRunning, heldQueue,
                   handlerCalls, panicked>>

\* timeout := openTimeChannel, or the channel of a new timer.
ServeHTTP_ArmTimer(r) ==
    /\ impl = "inline"
    /\ pc[r] = "Enqueued"
    /\ NewTimer(r)
    /\ Goto(r, "Queued")
    /\ UNCHANGED <<config, running, queue, queueOrder, ctxDone,
                   firedWhileFull, firedLate, heldRunning, heldQueue, ghost>>

\* Mutant: a queued request takes a spot in running although none is free.
ServeHTTP_Promote_NoRoomCheck(r) ==
    /\ impl = "inline"
    /\ pc[r] = "Queued"
    /\ running' = running + 1
    /\ heldRunning' = [heldRunning EXCEPT ![r] = @ + 1]
    /\ Goto(r, "Promoted")
    /\ UNCHANGED <<config, queue, queueOrder, timer, ctxDone, firedWhileFull,
                   firedLate, heldQueue, ghost>>

\* Mutant: only the request that has been in queue the longest may take a
\* freed spot in running.
ServeHTTP_Promote_OldestFirst(r) ==
    /\ impl = "inline"
    /\ pc[r] = "Queued"
    /\ queueOrder # <<>> /\ Head(queueOrder) = r
    /\ SendRunning(r)
    /\ Goto(r, "Promoted")
    /\ UNCHANGED <<config, queue, queueOrder, timer, ctxDone, firedWhileFull,
                   firedLate, heldQueue, ghost>>

\* Third select, case m.running <- struct{}{}.  A request at "Queued" has
\* not resolved its select yet: the cases that are ready when it does are
\* the ones it may take, whatever became ready first.
ServeHTTP_Promote(r) ==
    /\ impl = "inline"
    /\ pc[r] = "Queued"
    /\ SendRunning(r)
    /\ Goto(r, "Promoted")
    /\ UNCHANGED <<config, queue, queueOrder, timer, ctxDone, firedWhileFull,
                   firedLate, heldQueue, ghost>>

\* Mutant: the deadline case is taken although the timer has not fired.
ServeHTTP_Timeout_Early(r) ==
    /\ impl = "inline"
    /\ pc[r] = "Queued"
    /\ timer[r] \in {"armed", "fired"}
    /\ Goto(r, "TimedOut")
    /\ UNCHANGED <<config, running, queue, queueOrder, timer, ctxDone,
                   firedWhileFull, firedLate, heldRunning, heldQueue, ghost>>

\* Mutant: timeout is left as openTimeChannel although a timer was made, so
\* the deadline case is never ready.
ServeHTTP_Timeout_OpenChannel(r) ==
    /\ impl = "inline"
    /\ pc[r] = "Queued"
    /\ FALSE
    /\ Goto(r, "TimedOut")
    /\ UNCHANGED <<config, running, queue, queueOrder, timer, ctxDone,
                   firedWhileFull, firedLate, heldRunning, heldQueue, ghost>>

\* Third select, case <-timeout.
ServeHTTP_Timeout(r) ==
    /\ impl = "inline"
    /\ pc[r] = "Queued"
    /\ RecvTimeout(r)
    /\ Goto(r, "TimedOut")
    /\ UNCHANGED <<config, running, queue, queueOrder, ctxDone,
                   firedWhileFull, firedLate, heldRunning, heldQueue, ghost>>

\* Third select, case <-r.Context().Done().
ServeHTTP_Cancel(r) ==
    /\ impl = "inline"
    /\ pc[r] = "Queued"
    /\ ctxDone[r]
    /\ Goto(r, "Cancelled")
    /\ UNCHANGED <<config, running, queue, queueOrder, timer, ctxDone,
                   firedWhileFull, firedLate, heldRunning, heldQueue, ghost>>

\* Mutant: the promoted request keeps its spot in queue.
ServeHTTP_PromotedLeaveQueue_NoRecv(r) ==
    /\ impl = "inline"
    /\ pc[r] = "Promoted"
    /\ Goto(r, IF timer[r] # "none" THEN "PromotedStop" ELSE "AdmittedDelayed")
    /\ UNCHANGED <<config, running, queue, queueOrder, heldQueue, timer,
                   ctxDone, firedWhileFull, firedLate, heldRunning, ghost>>

\* <-m.queue of the promoted request.
ServeHTTP_PromotedLeaveQueue(r) ==
    /\ impl = "inline"
    /\ pc[r] = "Promoted"
    /\ RecvQueue(r)
    /\ Goto(r, IF timer[r] # "none" THEN "PromotedStop" ELSE "AdmittedDelayed")
    /\ UNCHANGED <<config, running, timer, ctxDone, firedWhileFull,
                   firedLate, heldRunning, ghost>>

\* Mutant: the promoted request does not stop its timer.
ServeHTTP_PromotedStopTimer_NoStop(r) ==
    /\ impl = "inline"
    /\ pc[r] = "PromotedStop"
    /\ Goto(r, "AdmittedDelayed")
    /\ UNCHANGED <<config, running, queue, queueOrder, timer, ctxDone,
                   firedWhileFull, firedLate, heldRunning, heldQueue, ghost>>

\* timer.Stop() of the promoted request.
ServeHTTP_PromotedStopTimer(r) ==
    /\ impl = "inline"
    /\ pc[r] = "PromotedStop"
    /\ StopTimer(r)
    /\ Goto(r, "AdmittedDelayed")
    /\ UNCHANGED <<config, running, queue, queueOrder, ctxDone,
                   firedWhileFull, firedLate, heldRunning, heldQueue, ghost>>

\* Mutant: the overload handler is reached with the spot in queue still held.
ServeHTTP_TimedOutLeaveQueue_NoRecv(r) ==
    /\ impl = "inline"
    /\ pc[r] = "TimedOut"
    /\ Goto(r, "OverloadTimeout")
    /\ UNCHANGED <<config, running, queue, queueOrder, heldQueue, timer,
                   ctxDone, firedWhileFull, firedLate, heldRunning, ghost>>

\* <-m.queue of the request whose deadline passed.
ServeHTTP_TimedOutLeaveQueue(r) ==
    /\ impl = "inline"
    /\ pc[r] = "TimedOut"
    /\ RecvQueue(r)
    /\ Goto(r, "OverloadTimeout")
    /\ UNCHANGED <<config, running, timer, ctxDone, firedWhileFull,
                   firedLate, heldRunning, ghost>>

\* Mutant: no return after the overload handler; the handler is called too.
ServeHTTP_OverloadTimeout_FallThrough(r) ==
    /\ impl = "inline"
    /\ pc[r] = "OverloadTimeout"
    /\ overloadCalls' = [overloadCalls EXCEPT ![r] = @ + 1]
    /\ Goto(r, "AdmittedDelayed")
    /\ UNCHANGED <<config, running, queue, queueOrder, timer, ctxDone,
                   firedWhileFull, firedLate, heldRunning, heldQueue,
                   handlerCalls, panicked>>

\* overloadHandler.ServeHTTP(w, r) after the deadline.
ServeHTTP_OverloadTimeout(r) ==
    /\ impl = "inline"
    /\ pc[r] = "OverloadTimeout"
    /\ overloadCalls' = [overloadCalls EXCEPT ![r] = @ + 1]
    /\ Goto(r, "RejectedTimeout")
    /\ UNCHANGED <<config, running, queue, queueOrder, timer, ctxDone,
                   firedWhileFull, firedLate, heldRunning, heldQueue,
                   handlerCalls, panicked>>

\* Mutant: the cancelled request returns without <-m.queue.
ServeHTTP_CancelledLeaveQueue_NoRecv(r) ==
    /\ impl = "inline"
    /\ pc[r] = "Cancelled"
    /\ Goto(r, IF timer[r] # "none" THEN "CancelledStop" ELSE "RejectedCancelled")
    /\ UNCHANGED <<config, running, queue, queueOrder, heldQueue, timer,
                   ctxDone, firedWhileFull, firedLate, heldRunning, ghost>>

\* <-m.queue of the request whose context is done.
ServeHTTP_CancelledLeaveQueue(r) ==
    /\ impl = "inline"
    /\ pc[r] = "Cancelled"
    /\ RecvQueue(r)
    /\ Goto(r, IF timer[r] # "none" THEN "CancelledStop" ELSE "RejectedCancelled")
    /\ UNCHANGED <<config, running, timer, ctxDone, firedWhileFull,
                   firedLate, heldRunning, ghost>>

\* timer.Stop() of the request whose context is done; ServeHTTP returns
\* without writing a response.
ServeHTTP_CancelledStopTimer(r) ==
    /\ impl = "inline"
    /\ pc[r] = "CancelledStop"
    /\ StopTimer(r)
    /\ Goto(r, "RejectedCancelled")
    /\ UNCHANGED <<config, running, queue, queueOrder, ctxDone,
                   firedWhileFull, firedLate, heldRunning, heldQueue, ghost>>

\* m.handler.ServeHTTP(w, r) is entered, on the fast path or after promotion.
ServeHTTP_CallHandler(r) ==
    /\ impl = "inline"
    /\ pc[r] \in {"AdmittedFast", "AdmittedDelayed"}
    /\ handlerCalls' = [handlerCalls EXCEPT ![r] = @ + 1]
    /\ Goto(r, "InHandler")
    /\ UNCHANGED <<config, running, queue, queueOrder, timer, ctxDone,
                   firedWhileFull, firedLate, heldRunning, heldQueue,
                   overloadCalls, panicked>>

\* Mutant: <-m.running is not deferred, so a panic skips it.
ServeHTTP_HandlerEnds_PanicSkipsRelease(r, abnormal) ==
    /\ impl = "inline"
    /\ pc[r] = "InHandler"
    /\ panicked' = [panicked EXCEPT ![r] = abnormal]
    /\ Goto(r, IF abnormal THEN "Completed" ELSE "Deferred")
    /\ UNCHANGED <<config, running, queue, queueOrder, timer, ctxDone,
                   firedWhileFull, firedLate, heldRunning, heldQueue,
                   handlerCalls, overloadCalls>>

\* The handler returns, or panics (abnormal = TRUE); the deferred function
\* runs next in both cases.
ServeHTTP_HandlerEnds(r, abnormal) ==
    /\ impl = "inline"
    /\ pc[r] = "InHandler"
    /\ panicked' = [panicked EXCEPT ![r] = abnormal]
    /\ Goto(r, "Deferred")
    /\ UNCHANGED <<config, running, queue, queueOrder, timer, ctxDone,
                   firedWhileFull, firedLate, heldRunning, heldQueue,
                   handlerCalls, overloadCalls>>

\* The deferred func() { <-m.running }().
ServeHTTP_Release(r) ==
    /\ impl = "inline"
    /\ pc[r] = "Deferred"
    /\ RecvRunning(r)
    /\ Goto(r, "Completed")
    /\ UNCHANGED <<config, queue, queueOrder, timer, ctxDone, firedWhileFull,
                   firedLate, heldQueue, ghost>>

(***************************************************************************)
(* Middleware.enqueueRunning and Middleware.ServeHTTP, src/unnamed/part_000 *)
(***************************************************************************)

\* First select of enqueueRunning: return true with a spot in running, or
\* fall through to the slow path.
enqueueRunning_FastPath(r) ==
    /\ impl = "enqueueRunning"
    /\ pc[r] = "Arrived"
    /\ IF running < maxRunning
       THEN /\ SendRunning(r)
            /\ Goto(r, "AdmittedFast")
       ELSE /\ Goto(r, "SlowPath")
            /\ UNCHANGED <<running, heldRunning>>
    /\ UNCHANGED <<config, queue, queueOrder, timer, ctxDone, firedWhileFull,
                   firedLate, heldQueue, ghost>>

\* Second select: take a spot in queue (and defer <-m.queue) or return false.
enqueueRunning_Enqueue(r) ==
    /\ impl = "enqueueRunning"
    /\ pc[r] = "SlowPath"
    /\ IF queue < maxInQueue
       THEN /\ SendQueue(r)
            /\ Goto(r, "Enqueued")
       ELSE /\ Goto(r, "OverloadImmediate")
            /\ UNCHANGED <<queue, queueOrder, heldQueue>>
    /\ UNCHANGED <<config, running, timer, ctxDone, firedWhileFull,
                   firedLate, heldRunning, ghost>>

\* timer = m.newTimer(m.MaxWaitInQueue); defer timer.Stop(); or a nil timeout.
enqueueRunning_ArmTimer(r) ==
    /\ impl = "enqueueRunning"
    /\ pc[r] = "Enqueued"
    /\ NewTimer(r)
    /\ Goto(r, "Queued")
    /\ UNCHANGED <<config, running, queue, queueOrder, ctxDone,
                   firedWhileFull, firedLate, heldRunning, heldQueue, ghost>>

\* Third select, case m.running <- struct{}{}: return true.
enqueueRunning_Promote(r) ==
    /\ impl = "enqueueRunning"
    /\ pc[r] = "Queued"
    /\ SendRunning(r)
    /\ Goto(r, IF timer[r] # "none" THEN "PromotedStop" ELSE "PromotedLeave")
    /\ UNCHANGED <<config, queue, queueOrder, timer, ctxDone, firedWhileFull,
                   firedLate, heldQueue, ghost>>

\* Third select, case <-timeout: return false.
enqueueRunning_Timeout(r) ==
    /\ impl = "enqueueRunning"
    /\ pc[r] = "Queued"
    /\ RecvTimeout(r)
    /\ Goto(r, "TimedOutStop")
    /\ UNCHANGED <<config, running, queue, queueOrder, ctxDone,
                   firedWhileFull, firedLate, heldRunning, heldQueue, ghost>>

\* Third select, case <-ctx.Done(): return false.
enqueueRunning_Cancel(r) ==
    /\ impl = "enqueueRunning"
    /\ pc[r] = "Queued"
    /\ ctxDone[r]
    /\ Goto(r, IF timer[r] # "none" THEN "CancelledStop" ELSE "CancelledLeave")
    /\ UNCHANGED <<config, running, queue, queueOrder, timer, ctxDone,
                   firedWhileFull, firedLate, heldRunning, heldQueue, ghost>>

\* The deferred timer.Stop().
enqueueRunning_DeferredStop(r) ==
    /\ impl = "enqueueRunning"
    /\ pc[r] \in {"PromotedStop", "TimedOutStop", "CancelledStop"}
    /\ StopTimer(r)
    /\ Goto(r, CASE pc[r] = "PromotedStop" -> "PromotedLeave"
                 [] pc[r] = "TimedOutStop" -> "TimedOutLeave"
                 [] pc[r] = "CancelledStop" -> "CancelledLeave")
    /\ UNCHANGED <<config, running, queue, queueOrder, ctxDone,
                   firedWhileFull, firedLate, heldRunning, heldQueue, ghost>>

\* The deferred func() { <-m.queue }(); enqueueRunning then returns to
\* ServeHTTP, with true after a promotion and false otherwise.
enqueueRunning_DeferredLeaveQueue(r) ==
    /\ impl = "enqueueRunning"
    /\ pc[r] \in {"PromotedLeave", "TimedOutLeave", "CancelledLeave"}
    /\ RecvQueue(r)
    /\ Goto(r, CASE pc[r] = "PromotedLeave" -> "AdmittedDelayed"
                 [] pc[r] = "TimedOutLeave" -> "OverloadTimeout"
                 [] pc[r] = "CancelledLeave" -> "OverloadCancelled")
    /\ UNCHANGED <<config, running, timer, ctxDone, firedWhileFull,
                   firedLate, heldRunning, ghost>>

\* enqueueRunning returned true: m.handler.ServeHTTP(w, r) is entered.
ServeHTTPviaEnqueue_CallHandler(r) ==
    /\ impl = "enqueueRunning"
    /\ pc[r] \in {"AdmittedFast", "AdmittedDelayed"}
    /\ handlerCalls' = [handlerCalls EXCEPT ![r] = @ + 1]
    /\ Goto(r, "InHandler")
    /\ UNCHANGED <<config, running, queue, queueOrder, timer, ctxDone,
                   firedWhileFull, firedLate, heldRunning, heldQueue,
                   overloadCalls, panicked>>

\* The handler returns, or panics (abnormal = TRUE).
ServeHTTPviaEnqueue_HandlerEnds(r, abnormal) ==
    /\ impl = "enqueueRunning"
    /\ pc[r] = "InHandler"
    /\ panicked' = [panicked EXCEPT ![r] = abnormal]
    /\ Goto(r, "Deferred")
    /\ UNCHANGED <<config, running, queue, queueOrder, timer, ctxDone,
                   firedWhileFull, firedLate, heldRunning, heldQueue,
                   handlerCalls, overloadCalls>>

\* The deferred func() { <-m.running }().
ServeHTTPviaEnqueue_Release(r) ==
    /\ impl = "enqueueRunning"
    /\ pc[r] = "Deferred"
    /\ RecvRunning(r)
    /\ Goto(r, "Completed")
    /\ UNCHANGED <<config, queue, queueOrder, timer, ctxDone, firedWhileFull,
                   firedLate, heldQueue, ghost>>

\* enqueueRunning returned false (queue full, deadline, or context done):
\* m.OverloadHandler.ServeHTTP(w, r).
ServeHTTPviaEnqueue_Overload(r) ==
    /\ impl = "enqueueRunning"
    /\ pc[r] \in {"OverloadImmediate", "OverloadTimeout", "OverloadCancelled"}
    /\ overloadCalls' = [overloadCalls EXCEPT ![r] = @ + 1]
    /\ Goto(r, CASE pc[r] = "OverloadImmediate" -> "RejectedImmediate"
                 [] pc[r] = "OverloadTimeout" -> "RejectedTimeout"
                 [] pc[r] = "OverloadCancelled" -> "RejectedCancelled")
    /\ UNCHANGED <<config, running, queue, queueOrder, timer, ctxDone,
                   firedWhileFull, firedLate, heldRunning, heldQueue,
                   handlerCalls, panicked>>

(***************************************************************************)
(* The environment of a request: its timer and its context.                *)
(***************************************************************************)

\* The runtime sends on timer.C once the duration has passed.
TimerFires(r) ==
    /\ timer[r] = "armed"
    /\ timer' = [timer EXCEPT ![r] = "fired"]
    /\ firedWhileFull' = [firedWhileFull EXCEPT
                             ![r] = pc[r] = "Queued" /\ running = maxRunning]
    /\ firedLate' = [firedLate EXCEPT ![r] = pc[r] # "Queued"]
    /\ UNCHANGED <<config, running, queue, queueOrder, pc, ctxDone,
                   heldRunning, heldQueue, ghost>>

\* The request's context is cancelled (the client went away), at any point
\* before ServeHTTP returns.
ContextDone(r) ==
    /\ ~ctxDone[r]
    /\ pc[r] \notin Terminal
    /\ ctxDone' = [ctxDone EXCEPT ![r] = TRUE]
    /\ UNCHANGED <<config, running, queue, queueOrder, pc, timer,
                   heldRunning, heldQueue, ghost, firedWhileFull, firedLate>>

\* Requests are numbered in the order in which they enter ServeHTTP: the
\* requests are interchangeable, so this leaves out no behaviour but the
\* renamings of the ones kept.
NextToArrive(r) == \A s \in Requests : s < r => pc[s] # "Arrived"

\* A client's request enters ServeHTTP.
Arrive(r) ==
    /\ NextToArrive(r)
    /\ \/ ServeHTTP_FastPath(r)
       \/ enqueueRunning_FastPath(r)

\* One step of an arrived request r inside ServeHTTP.
Step(r) ==
    \/ ServeHTTP_Enqueue(r)
    \/ ServeHTTP_OverloadImmediate(r)
    \/ ServeHTTP_ArmTimer(r)
    \/ ServeHTTP_Promote(r)
    \/ ServeHTTP_Timeout(r)
    \/ ServeHTTP_Cancel(r)
    \/ ServeHTTP_PromotedLeaveQueue(r)
    \/ ServeHTTP_PromotedStopTimer(r)
    \/ ServeHTTP_TimedOutLeaveQueue(r)
    \/ ServeHTTP_OverloadTimeout(r)
    \/ ServeHTTP_CancelledLeaveQueue(r)
    \/ ServeHTTP_CancelledStopTimer(r)
    \/ ServeHTTP_CallHandler(r)
    \/ ServeHTTP_Release(r)
    \/ enqueueRunning_Enqueue(r)
    \/ enqueueRunning_ArmTimer(r)
    \/ enqueueRunning_Promote(r)
    \/ enqueueRunning_Timeout(r)
    \/ enqueueRunning_Cancel(r)
    \/ enqueueRunning_DeferredStop(r)
    \/ enqueueRunning_DeferredLeaveQueue(r)
    \/ ServeHTTPviaEnqueue_CallHandler(r)
    \/ ServeHTTPviaEnqueue_Release(r)
    \/ ServeHTTPviaEnqueue_Overload(r)

\* The handler of request r ends, normally or by a panic.
HandlerEnds(r) ==
    \E abnormal \in BOOLEAN :
        \/ ServeHTTP_HandlerEnds(r, abnormal)
        \/ ServeHTTPviaEnqueue_HandlerEnds(r, abnormal)

Next ==
    \E r \in FreeRequests :
        \/ Arrive(r)
        \/ Step(r)
        \/ HandlerEnds(r)
        \/ TimerFires(r)
        \/ ContextDone(r)

Spec == Init /\ [][Next]_vars

(***************************************************************************)
(* Requests under a deadline: MaxWaitInQueue is positive, every arrived    *)
(* request goes on running its code, and every timer that was made and     *)
(* not stopped fires.  Nothing is assumed about arrivals, about the end of *)
(* handler calls or about cancellations.                                   *)
(***************************************************************************)

InitDeadline ==
    /\ Init
    /\ MaxWaitInQueue > 0

SpecDeadline ==
    /\ InitDeadline
    /\ [][Next]_vars
    /\ \A r \in FreeRequests : WF_vars(Step(r)) /\ WF_vars(TimerFires(r))

(***************************************************************************)
(* Scenarios A and B of TestMaxConnections: requests arrive while every    *)
(* handler blocks on handlerBarrier, no deadline passes and no context is  *)
(* cancelled; once all arrived requests are running, queued or rejected,   *)
(* at most one handler is let go, and nothing arrives after that.  The Go  *)
(* scheduler runs every goroutine that can take a step, which is the weak  *)
(* fairness of the steps inside ServeHTTP; arrivals are up to the clients. *)
(***************************************************************************)

\* No handler call has ended so far.
NoHandlerEnded == \A r \in Requests : pc[r] \notin {"Deferred", "Completed"}

\* Request r is not in the middle of the admission code.
Settled(r) == pc[r] \in {"Arrived", "InHandler", "Queued"} \cup Terminal

\* A client's request enters ServeHTTP, before any handler is let go.
ScenarioArrive(r) ==
    /\ NoHandlerEnded
    /\ Arrive(r)

\* The steps of an arrived request that need no deadline and no cancellation.
ScenarioProgress(r) ==
    \/ ServeHTTP_Enqueue(r)
    \/ ServeHTTP_OverloadImmediate(r)
    \/ ServeHTTP_ArmTimer(r)
    \/ ServeHTTP_Promote(r)
    \/ ServeHTTP_PromotedLeaveQueue(r)
    \/ ServeHTTP_PromotedStopTimer(r)
    \/ ServeHTTP_CallHandler(r)
    \/ ServeHTTP_Release(r)
    \/ enqueueRunning_Enqueue(r)
    \/ enqueueRunning_ArmTimer(r)
    \/ enqueueRunning_Promote(r)
    \/ enqueueRunning_DeferredStop(r)
    \/ enqueueRunning_DeferredLeaveQueue(r)
    \/ ServeHTTPviaEnqueue_CallHandler(r)
    \/ ServeHTTPviaEnqueue_Release(r)
    \/ ServeHTTPviaEnqueue_Overload(r)

\* handlerBarrier <- struct{}{}: one blocked handler is let go.
ScenarioHandlerEnds(r) ==
    /\ NoHandlerEnded
    /\ \A s \in Requests : Settled(s)
    /\ HandlerEnds(r)

ScenarioNext ==
    \E r \in Requests :
        \/ ScenarioArrive(r)
        \/ ScenarioProgress(r)
        \/ ScenarioHandlerEnds(r)

SpecScenario ==
    /\ Init
    /\ [][ScenarioNext]_vars
    /\ \A r \in Requests : WF_vars(ScenarioProgress(r))

(***************************************************************************)
(* Quantities the properties speak of.                                     *)
(***************************************************************************)

RECURSIVE SumUpTo(_, _)
SumUpTo(f, n) == IF n = 0 THEN 0 ELSE f[n] + SumUpTo(f, n - 1)

\* The sum of a per-request counter.
Total(f) == SumUpTo(f, BurstRequests)

\* Requests inside m.handler.ServeHTTP.
Executing == {r \in Requests : pc[r] = "InHandler"}

\* Requests blocked in the third select.
Waiting == {r \in Requests : pc[r] = "Queued"}

\* Requests that have entered ServeHTTP.
ArrivedRequests == {r \in Requests : pc[r] # "Arrived"}

\* Requests that got the overload handler's response.
Overloaded == {r \in Requests : overloadCalls[r] > 0}

Min(a, b) == IF a < b THEN a ELSE b
Max(a, b) == IF a > b THEN a ELSE b

(***************************************************************************)
(* Properties.                                                             *)
(***************************************************************************)

\* C1: in every reachable state the occupancy of running is between 0 and
\* maxRunning and the occupancy of queue is between 0 and maxInQueue.
PoolBounds ==
    /\ running \in 0..maxRunning
    /\ queue \in 0..maxInQueue

\* Both pools are full at once.
PoolsFull ==
    /\ maxInQueue > 0
    /\ running = maxRunning
    /\ queue = maxInQueue

\* C2: at most maxRunning requests execute the handler, and each of them
\* holds one spot in running that it took itself and has not given back
\* (the occupancy of running is the sum of the spots the requests hold).
HandlerHoldsPermit ==
    /\ Cardinality(Executing) <= maxRunning
    /\ \A r \in Requests : heldRunning[r] \in {0, 1}
    /\ \A r \in Executing : heldRunning[r] = 1
    /\ running = Total(heldRunning)

\* maxRunning handlers execute, one admitted on the fast path and one
\* promoted from the queue.
FastAndPromotedExecuting ==
    /\ Cardinality(Executing) = maxRunning
    /\ \E r1, r2 \in Executing :
        /\ timer[r1] = "none"
        /\ timer[r2] = "stopped"

\* C3: every spot a request takes, in running or in queue, is given back
\* exactly once by that request: a request never holds more than one spot
\* or less than none, holds none once it is terminal, and both pools are
\* empty whenever every request that arrived is terminal.
NoPermitLeak ==
    /\ \A r \in Requests :
        /\ heldRunning[r] \in {0, 1}
        /\ heldQueue[r] \in {0, 1}
        /\ pc[r] \in Terminal => heldRunning[r] = 0 /\ heldQueue[r] = 0
    /\ running = Total(heldRunning)
    /\ queue = Total(heldQueue)
    /\ (\A r \in ArrivedRequests : pc[r] \in Terminal) => running = 0 /\ queue = 0

\* All requests are terminal, with a completed, a timed out and a cancelled
\* one among them.
AllTerminalMixed ==
    /\ \A r \in ArrivedRequests : pc[r] \in Terminal
    /\ \E r1, r2, r3 \in Requests :
        /\ pc[r1] = "Completed"
        /\ pc[r2] = "RejectedTimeout"
        /\ pc[r3] = "RejectedCancelled"

\* C4: over the lifetime of a request the handler and the overload handler
\* are called at most once in total, never both; a completed request had
\* the handler, a request rejected at once or by the deadline had the
\* overload handler, and a terminal request for which neither was called is
\* one that was cancelled while queued.
OneOutcome ==
    \A r \in Requests :
        /\ handlerCalls[r] + overloadCalls[r] <= 1
        /\ pc[r] = "Completed" => handlerCalls[r] = 1
        /\ pc[r] \in {"RejectedImmediate", "RejectedTimeout"} => overloadCalls[r] = 1
        /\ pc[r] \in Terminal /\ handlerCalls[r] + overloadCalls[r] = 0
              => pc[r] = "RejectedCancelled"

\* The three outcomes side by side: handler, overload handler, neither.
AllThreeOutcomes ==
    \E r1, r2, r3 \in Requests :
        /\ pc[r1] = "Completed" /\ handlerCalls[r1] = 1
        /\ pc[r2] \in {"RejectedImmediate", "RejectedTimeout"} /\ overloadCalls[r2] = 1
        /\ pc[r3] = "RejectedCancelled" /\ handlerCalls[r3] + overloadCalls[r3] = 0

\* C5: whenever the overload handler is called for a request, the request
\* holds no spot in running and none in queue at that moment, and the call
\* changes neither pool.
OverloadHoldsNothing ==
    [][\A r \in Requests :
          overloadCalls'[r] # overloadCalls[r] =>
              /\ heldRunning[r] = 0
              /\ heldQueue[r] = 0
              /\ running' = running
              /\ queue' = queue
              /\ heldRunning' = heldRunning
              /\ heldQueue' = heldQueue]_vars

\* The overload handler has answered a request turned away at once and a
\* request whose deadline passed.
BothOverloadsAnswered ==
    \E r1, r2 \in Requests :
        /\ pc[r1] = "RejectedImmediate" /\ overloadCalls[r1] = 1
        /\ pc[r2] = "RejectedTimeout" /\ overloadCalls[r2] = 1

\* C6: a queued request whose cancellation wins the race gives back its
\* spot in queue and ends cancelled with neither the overload handler nor
\* the handler called for it.
CancelledGetsNoResponse ==
    \A r \in Requests :
        pc[r] = "RejectedCancelled" =>
            /\ heldQueue[r] = 0
            /\ overloadCalls[r] = 0
            /\ handlerCalls[r] = 0

\* The labels of a request whose deadline case was taken.
TimeoutPath == {"TimedOut", "TimedOutStop", "TimedOutLeave", "OverloadTimeout"}

\* C7: with MaxWaitInQueue > 0, a queued request whose deadline has fired
\* while running is full (and whose context is not done) can only take the
\* deadline case; it then gives back its spot in queue, after that gets the
\* overload handler's answer and ends RejectedTimeout; none of its steps
\* changes the occupancy of running, and the step that gives back the spot
\* leaves room in queue for another request to take.
DeadlineRejects ==
    /\ [](\A r \in Requests :
            /\ pc[r] \in TimeoutPath \cup {"RejectedTimeout"} =>
                  /\ MaxWaitInQueue > 0
                  /\ timer[r] = "received"
                  /\ heldRunning[r] = 0
                  /\ handlerCalls[r] = 0
            /\ pc[r] = "OverloadTimeout" => heldQueue[r] = 0 /\ overloadCalls[r] = 0
            /\ pc[r] = "RejectedTimeout" => heldQueue[r] = 0 /\ overloadCalls[r] = 1)
    /\ [][\A r \in Requests :
            /\ ( /\ pc[r] = "Queued"
                 /\ timer[r] = "fired"
                 /\ running = maxRunning
                 /\ ~ctxDone[r]
                 /\ pc'[r] # pc[r] ) => pc'[r] \in TimeoutPath
            /\ (pc[r] \in TimeoutPath /\ pc'[r] # pc[r]) =>
                  /\ pc'[r] \in TimeoutPath \cup {"RejectedTimeout"}
                  /\ running' = running
                  /\ heldQueue'[r] # heldQueue[r] =>
                        /\ heldQueue'[r] = 0
                        /\ queue' = queue - 1
                        /\ queue' < maxInQueue]_vars

\* C7, as stated: a queued request whose deadline fired while no spot in
\* running could be taken (and whose context is not done) is rejected by
\* the deadline, so it is never promoted.
DeadlineFirstRejects ==
    \A r \in Requests :
        (firedWhileFull[r] /\ ~ctxDone[r]) =>
            pc[r] \in {"Queued", "RejectedTimeout"} \cup TimeoutPath

\* A request was rejected by its deadline and another request waits in the
\* single spot of queue that it gave back.
TimedOutSpotReused ==
    /\ maxInQueue = 1
    /\ running = maxRunning
    /\ \E r1, r2 \in Requests :
        /\ pc[r1] = "RejectedTimeout" /\ overloadCalls[r1] = 1
        /\ pc[r2] = "Queued" /\ heldQueue[r2] = 1

\* C8: an admitted request holds its spot in running from before the handler
\* is called until the call has ended, and the step after the end of the
\* call, normal or by a panic, gives the spot back; a completed request
\* holds none.
RunningReleasedAfterHandler ==
    /\ [](\A r \in Requests :
            /\ pc[r] \in {"InHandler", "Deferred"} => heldRunning[r] = 1
            /\ pc[r] = "Completed" => heldRunning[r] = 0 /\ handlerCalls[r] = 1)
    /\ [][\A r \in Requests :
            /\ (pc[r] = "InHandler" /\ pc'[r] # pc[r]) =>
                  /\ pc'[r] = "Deferred"
                  /\ running' = running
            /\ (pc[r] = "Deferred" /\ pc'[r] # pc[r]) =>
                  /\ pc'[r] = "Completed"
                  /\ heldRunning'[r] = 0
                  /\ running' = running - 1]_vars

\* Two handlers panicked, one admitted on the fast path and one promoted,
\* and running is empty again.
PanickedAndReleased ==
    /\ running = 0
    /\ \E r1, r2 \in Requests :
        /\ pc[r1] = "Completed" /\ panicked[r1] /\ timer[r1] = "none"
        /\ pc[r2] = "Completed" /\ panicked[r2] /\ timer[r2] = "stopped"

\* No handler has ended, no deadline has fired, no context is done.
ScenarioA ==
    /\ NoHandlerEnded
    /\ \A r \in Requests : ~ctxDone[r] /\ timer[r] \notin {"fired", "received"}

\* Every request is outside the admission code.
AllSettled == \A r \in Requests : Settled(r)

\* The numbers of scenario A for the K requests that have arrived.
ExpectedCounts ==
    LET K == Cardinality(ArrivedRequests) IN
    /\ Cardinality(Executing) = Min(K, maxRunning)
    /\ Cardinality(Waiting) = Min(Max(K - maxRunning, 0), maxInQueue)
    /\ Cardinality(Overloaded) = Max(K - maxRunning - maxInQueue, 0)
    /\ running = Cardinality(Executing)
    /\ queue = Cardinality(Waiting)

\* C9: when K requests have arrived and no handler returns, no deadline
\* fires and no context is cancelled, the system reaches, and is in
\* whenever all K are through the admission code, the state with
\* min(K, maxRunning) requests in the handler, min(max(K - maxRunning, 0),
\* maxInQueue) queued and max(K - maxRunning - maxInQueue, 0) answered by
\* the overload handler.
BurstSettles ==
    /\ []((ScenarioA /\ AllSettled) => ExpectedCounts)
    /\ <>[](~ScenarioA \/ (AllSettled /\ ExpectedCounts))

\* Scenario A of the test: 2 running, 3 queued, 1 rejected.
TwoThreeOne ==
    /\ maxRunning = 2 /\ maxInQueue = 3
    /\ ScenarioA /\ AllSettled
    /\ Cardinality(ArrivedRequests) = 6
    /\ Cardinality(Executing) = 2
    /\ Cardinality(Waiting) = 3
    /\ Cardinality(Overloaded) = 1

\* One handler call has just ended with running full and requests queued.
OneHandlerLetGo ==
    /\ Cardinality({r \in Requests : pc[r] = "Deferred"}) = 1
    /\ \A r \in Requests : pc[r] # "Completed"
    /\ running = maxRunning
    /\ queue > 0

\* The occupancy of queue and the number of requests answered by the
\* overload handler when K requests have arrived and none has left.
QueuedOf(K) == Min(Max(K - maxRunning, 0), maxInQueue)
OverloadedOf(K) == Max(K - maxRunning - maxInQueue, 0)

\* One queued request has taken the freed spot: queue holds one less than
\* before, and no further request was answered by the overload handler.
AfterPromotion ==
    LET K == Cardinality(ArrivedRequests) IN
    /\ Cardinality({r \in Requests : pc[r] = "Completed"}) = 1
    /\ running = maxRunning
    /\ Cardinality(Executing) = maxRunning
    /\ queue = QueuedOf(K) - 1
    /\ Cardinality(Waiting) = queue
    /\ Cardinality(Overloaded) = OverloadedOf(K)

\* C10: from a state with running full and q > 0 requests queued, when one
\* handler completes and nothing arrives, no deadline fires and no context
\* is cancelled, eventually one queued request is promoted: queue holds
\* q - 1, running is full again, and the number of requests answered by the
\* overload handler is as before; the system stays so.  (When the handler
\* completes, q is QueuedOf(K) and OverloadedOf(K) requests were answered by
\* the overload handler, K being the number of requests that arrived.)
OnePromoted ==
    /\ [](OneHandlerLetGo =>
            LET K == Cardinality(ArrivedRequests) IN
            /\ queue = QueuedOf(K)
            /\ Cardinality(Overloaded) = OverloadedOf(K))
    /\ (OneHandlerLetGo ~> []AfterPromotion)

\* Scenario B of the test: 2 running, 2 queued, 1 rejected, 1 completed.
TwoTwoOneOne ==
    /\ maxRunning = 2 /\ maxInQueue = 3
    /\ AfterPromotion
    /\ queue = 2
    /\ Cardinality(Overloaded) = 1

(***************************************************************************)
(* C11                                                                     *)
(***************************************************************************)

\* The positions of a request that never sent to m.queue.
NeverQueuedLabels ==
    {"Arrived", "AdmittedFast", "InHandler", "Deferred", "Completed",
     "SlowPath", "OverloadImmediate", "RejectedImmediate"}

\* C11: with maxInQueue = 0 the queue never holds an element and no request
\* ever holds a spot in it or waits in the third select: a request that
\* fails the fast path only goes on to the overload handler, and ends
\* rejected with exactly one call of the overload handler and no call of the
\* wrapped handler.
NoQueueWithoutCapacity ==
    maxInQueue = 0 =>
        /\ queue = 0
        /\ queueOrder = <<>>
        /\ \A r \in Requests :
              /\ heldQueue[r] = 0
              /\ timer[r] = "none"
              /\ pc[r] \in NeverQueuedLabels
              /\ pc[r] = "RejectedImmediate" =>
                    overloadCalls[r] = 1 /\ handlerCalls[r] = 0

\* With maxInQueue = 0, a request was rejected while another one is in the
\* handler.
RejectedWithoutQueue ==
    /\ maxInQueue = 0
    /\ \E r, s \in Requests :
          /\ pc[r] = "RejectedImmediate"
          /\ overloadCalls[r] = 1
          /\ pc[s] = "InHandler"

(***************************************************************************)
(* C12                                                                     *)
(***************************************************************************)

\* The positions between the running case of the third select and the call
\* of the handler.
PromotedPath == {"Promoted", "PromotedStop", "PromotedLeave", "AdmittedDelayed"}

\* The positions between the ctx.Done() case of the third select and the
\* return of ServeHTTP.
CancelledPath ==
    {"Cancelled", "CancelledStop", "CancelledLeave", "OverloadCancelled"}

\* C12: with MaxWaitInQueue = 0 no request ever has a timer and none takes
\* the deadline case or ends RejectedTimeout; a request leaves the third
\* select only by sending to running (promotion) or, its context being
\* done, by the ctx.Done() case.
NoDeadlineWithoutWait ==
    /\ [](MaxWaitInQueue = 0 =>
            \A r \in Requests :
                /\ timer[r] = "none"
                /\ pc[r] \notin TimeoutPath \cup {"RejectedTimeout"})
    /\ [][MaxWaitInQueue = 0 =>
            \A r \in Requests :
                pc[r] = "Queued" /\ pc'[r] # "Queued" =>
                    \/ /\ pc'[r] \in PromotedPath
                       /\ running' = running + 1
                       /\ heldRunning'[r] = 1
                    \/ /\ pc'[r] \in CancelledPath
                       /\ ctxDone[r]
                       /\ running' = running]_vars

\* With MaxWaitInQueue = 0, one queued request was promoted and another one
\* left the queue because its context was cancelled.
LeftQueueBothWays ==
    /\ MaxWaitInQueue = 0
    /\ \E r, s \in Requests :
          /\ pc[r] = "AdmittedDelayed"
          /\ pc[s] = "RejectedCancelled"
          /\ timer[r] = "none" /\ timer[s] = "none"

(***************************************************************************)
(* C13                                                                     *)
(***************************************************************************)

\* C13 as stated: when the second select takes its default case, running
\* and queue are both full.
OverloadOnlyWhenBothFull ==
    [][\A r \in Requests :
          pc[r] = "SlowPath" /\ pc'[r] = "OverloadImmediate" =>
              running = maxRunning /\ queue = maxInQueue]_vars

\* C13, amended: a request reaches the overload handler without queuing
\* only through the default case of the second select, taken with queue
\* full; it reached the second select through the default case of the first
\* select, taken with running full.  Running need not be full any more when
\* the second select is resolved.  The request holds no element of either
\* channel, and the step changes neither occupancy.
OverloadAfterBothSeenFull ==
    [][\A r \in Requests :
          /\ pc[r] # "SlowPath" /\ pc'[r] = "SlowPath" =>
                pc[r] = "Arrived" /\ running = maxRunning
          /\ pc[r] # "OverloadImmediate" /\ pc'[r] = "OverloadImmediate" =>
                /\ pc[r] = "SlowPath"
                /\ queue = maxInQueue
                /\ running' = running /\ queue' = queue
                /\ heldRunning[r] = 0 /\ heldQueue[r] = 0]_vars

\* A request is on its way to the overload handler, the queue is full and
\* running has room.
RejectedWithRunningFree ==
    \E r \in Requests :
        /\ pc[r] = "OverloadImmediate"
        /\ queue = maxInQueue
        /\ running < maxRunning

(***************************************************************************)
(* C14                                                                     *)
(***************************************************************************)

\* C14: a request holds at most one element of queue and at most one
\* element of running.  From the end of its admission to the end of its
\* handler call it holds exactly one element of running and none of queue:
\* a promoted request has given back its spot in queue before the handler
\* is called.  Only the second select gives a request a spot in queue, and
\* a request admitted by the first select never gets there, so it never
\* holds one.
OnePermitEach ==
    /\ [](\A r \in Requests :
            /\ heldRunning[r] \in {0, 1}
            /\ heldQueue[r] \in {0, 1}
            /\ pc[r] \in {"AdmittedFast", "AdmittedDelayed", "InHandler"} =>
                  heldRunning[r] = 1 /\ heldQueue[r] = 0
            /\ pc[r] \in {"Arrived", "SlowPath", "Deferred"} =>
                  heldQueue[r] = 0)
    /\ [][\A r \in Requests :
            /\ heldQueue'[r] > heldQueue[r] => pc[r] = "SlowPath"
            /\ pc[r] # "SlowPath" /\ pc'[r] = "SlowPath" =>
                  pc[r] = "Arrived" /\ heldRunning[r] = 0
            /\ pc[r] # "AdmittedFast" /\ pc'[r] = "AdmittedFast" =>
                  pc[r] = "Arrived"
            /\ pc[r] \in {"AdmittedFast", "InHandler", "Deferred"} =>
                  pc'[r] \notin {"SlowPath", "Arrived"}]_vars

\* A promoted request (it has a stopped timer) and a request admitted on
\* the fast path (it has no timer) are both in the handler.
PromotedAndFastInHandler ==
    /\ MaxWaitInQueue > 0
    /\ \E r, s \in Requests :
          /\ pc[r] = "InHandler" /\ timer[r] = "stopped"
          /\ heldRunning[r] = 1 /\ heldQueue[r] = 0
          /\ pc[s] = "InHandler" /\ timer[s] = "none"
          /\ heldRunning[s] = 1 /\ heldQueue[s] = 0

(***************************************************************************)
(* C15                                                                     *)
(***************************************************************************)

\* C15: a request that was promoted or cancelled has no armed timer once
\* its timer.Stop() has run, which is before the handler is called and
\* before ServeHTTP returns.  A timer that fires after its request has left
\* the third select changes nothing but the timer: the firing step leaves
\* both occupancies, every position and every call count as they are, its
\* value is never received, and the request stays on the path it took in
\* the select (a promoted request goes on to the handler and is never
\* answered by the overload handler; a cancelled request ends
\* RejectedCancelled, answered as every cancelled request of that version
\* of ServeHTTP is).
LateTimerChangesNothing ==
    /\ [](\A r \in Requests :
            /\ pc[r] \in {"AdmittedDelayed", "InHandler", "Deferred",
                          "Completed", "OverloadCancelled",
                          "RejectedCancelled"} => timer[r] # "armed"
            /\ firedLate[r] =>
                  /\ timer[r] = "fired"
                  /\ pc[r] \in PromotedPath \cup CancelledPath \cup
                         {"InHandler", "Deferred", "Completed",
                          "RejectedCancelled"}
                  /\ pc[r] \notin CancelledPath \cup {"RejectedCancelled"} =>
                        overloadCalls[r] = 0
            /\ pc[r] = "RejectedCancelled" =>
                  overloadCalls[r] = IF impl = "enqueueRunning" THEN 1 ELSE 0)
    /\ [][\A r \in Requests :
            /\ timer[r] = "armed" /\ timer'[r] = "fired" /\ pc[r] # "Queued" =>
                  /\ firedLate'[r]
                  /\ UNCHANGED <<running, queue, pc, heldRunning, heldQueue,
                                 handlerCalls, overloadCalls>>
            /\ firedLate[r] /\ pc[r] \in PromotedPath =>
                  pc'[r] \in PromotedPath \cup {"InHandler"}
            /\ firedLate[r] /\ pc[r] \in CancelledPath =>
                  pc'[r] \in CancelledPath \cup {"RejectedCancelled"}]_vars

\* A promoted request whose timer fired after the promotion has completed
\* its handler call, and both channels are empty.
LateFiringIgnored ==
    \E r \in Requests :
        /\ firedLate[r]
        /\ pc[r] = "Completed"
        /\ handlerCalls[r] = 1 /\ overloadCalls[r] = 0
        /\ running = 0 /\ queue = 0

(***************************************************************************)
(* C16                                                                     *)
(***************************************************************************)

\* C16: the third select and the handler call are the only places where a
\* request inside ServeHTTP can have no step to take.  In particular a
\* request that holds no spot in queue yet can always take its next step,
\* whatever the occupancy of running and queue and the positions of the
\* other requests: the first select admits it or falls through, the second
\* select gives it a spot in queue or sends it to the overload handler, and
\* the overload handler is called.
OnlyQueuedWaitBlocks ==
    \A r \in Requests :
        /\ pc[r] = "Arrived" =>
              ENABLED (ServeHTTP_FastPath(r) \/ enqueueRunning_FastPath(r))
        /\ pc[r] \notin {"Arrived", "Queued", "InHandler"} \cup Terminal =>
              ENABLED Step(r)

\* Both channels are full, a request is at the first select and another
\* one at the second select.
BothFullAndArriving ==
    /\ maxInQueue > 0
    /\ running = maxRunning
    /\ queue = maxInQueue
    /\ \E r, s \in Requests : pc[r] = "Arrived" /\ pc[s] = "SlowPath"

(***************************************************************************)
(* C17                                                                     *)
(***************************************************************************)

\* C17: r.Context().Done() is read only by the third select.  The closing
\* of a request's context changes neither occupancy, no position and no
\* call count.  The first select admits a request when running has room,
\* whether or not its context is done; only a request in the third select
\* takes the ctx.Done() case; an admitted request goes on to the handler,
\* stays there until the handler ends, and gives back its spot in running
\* only after that.
CancellationSeenOnlyQueued ==
    /\ [](\A r \in Requests :
            pc[r] \in {"AdmittedFast", "AdmittedDelayed", "InHandler"} =>
                heldRunning[r] = 1)
    /\ [][\A r \in Requests :
            /\ ctxDone'[r] # ctxDone[r] =>
                  /\ ctxDone'[r]
                  /\ UNCHANGED <<running, queue, pc, heldRunning, heldQueue,
                                 handlerCalls, overloadCalls>>
            /\ pc[r] = "Arrived" /\ pc'[r] # "Arrived" =>
                  IF running < maxRunning
                  THEN pc'[r] = "AdmittedFast" /\ heldRunning'[r] = 1
                  ELSE pc'[r] = "SlowPath"
            /\ pc[r] \notin CancelledPath /\ pc'[r] \in CancelledPath =>
                  pc[r] = "Queued" /\ ctxDone[r]
            /\ pc[r] # "RejectedCancelled" /\ pc'[r] = "RejectedCancelled" =>
                  pc[r] \in CancelledPath
            /\ pc[r] \in {"AdmittedFast", "AdmittedDelayed"} =>
                  pc'[r] \in {pc[r], "InHandler"}
            /\ pc[r] = "InHandler" => pc'[r] \in {"InHandler", "Deferred"}
            /\ heldRunning'[r] < heldRunning[r] => pc[r] = "Deferred"]_vars

\* A request whose context is done was admitted by the first select (it has
\* no timer) and is in the handler, holding its spot in running; another
\* one, its context done as well, is at the first select and running has
\* room.
CancelledYetAdmitted ==
    /\ MaxWaitInQueue > 0
    /\ running < maxRunning
    /\ \E r, s \in Requests :
          /\ ctxDone[r] /\ pc[r] = "InHandler"
          /\ timer[r] = "none" /\ heldRunning[r] = 1
          /\ ctxDone[s] /\ pc[s] = "Arrived"

(***************************************************************************)
(* C18                                                                     *)
(***************************************************************************)

\* The place of request r among the requests holding a spot in queue.
PlaceInQueue(r) == CHOOSE i \in 1..Len(queueOrder) : queueOrder[i] = r

\* C18: nothing orders the admissions.  Whenever running has room, every
\* request waiting in the third select can take the spot, whatever its
\* place among the waiting requests, and a request at the first select can
\* take it as well, whether or not other requests are waiting.
AnyWaiterOrArrivalAdmitted ==
    \A r \in Requests :
        /\ pc[r] = "Queued" /\ running < maxRunning =>
              ENABLED (ServeHTTP_Promote(r) \/ enqueueRunning_Promote(r))
        /\ pc[r] = "Arrived" /\ running < maxRunning =>
              ENABLED (/\ ServeHTTP_FastPath(r) \/ enqueueRunning_FastPath(r)
                       /\ pc'[r] = "AdmittedFast")

\* A request has taken a spot in running by the third select while a
\* request that took its spot in queue earlier is still waiting.
LaterQueuedPromotedFirst ==
    \E r, s \in Requests :
        /\ pc[r] \in PromotedPath /\ heldQueue[r] = 1 /\ heldRunning[r] = 1
        /\ pc[s] = "Queued" /\ heldQueue[s] = 1
        /\ PlaceInQueue(s) < PlaceInQueue(r)

\* Running has room for a request at the first select while an earlier
\* request is waiting in the third select.
ArrivalBesideWaiter ==
    \E r, s \in Requests :
        /\ pc[r] = "Arrived" /\ running < maxRunning
        /\ pc[s] = "Queued" /\ s < r

(***************************************************************************)
(* C19                                                                     *)
(***************************************************************************)

\* The queue is empty and no request is on its way into or inside the third
\* select.
NobodyQueued ==
    /\ queue = 0
    /\ \A r \in Requests : heldQueue[r] = 0 /\ pc[r] \notin {"Enqueued", "Queued"}

\* Every request that entered ServeHTTP has returned from it.
AllReturned == \A r \in Requests : pc[r] \in Terminal \cup {"Arrived"}

\* C19: with MaxWaitInQueue > 0 and timers that fire, every request that
\* holds a spot in queue eventually has left the third select and given the
\* spot back, whether or not any handler call ends or any context is
\* cancelled: again and again nobody is queued.  And if every handler call
\* eventually ends (no request stays in the handler for ever), every
\* request that entered ServeHTTP eventually reaches a terminal state:
\* again and again all requests that entered have returned.
QueuedEventuallyLeaves ==
    /\ []<>NobodyQueued
    /\ \/ \E r \in FreeRequests : <>[](pc[r] = "InHandler")
       \/ []<>AllReturned

\* A request was rejected by its deadline while no handler call has ended
\* and no context is cancelled.
TimedOutWithHandlersBusy ==
    /\ NoHandlerEnded
    /\ \A s \in Requests : ~ctxDone[s]
    /\ \E r \in Requests :
          /\ pc[r] = "RejectedTimeout"
          /\ heldQueue[r] = 0
          /\ overloadCalls[r] = 1

(***************************************************************************)
(* C20                                                                     *)
(***************************************************************************)

\* The calls <<of the handler, of the overload handler>> that ServeHTTP of
\* maxconnections.go makes for a request, by the way the request's selects
\* were resolved.
InlineOutcome(end) ==
    CASE end = "Completed" -> <<1, 0>>
      [] end = "RejectedImmediate" -> <<0, 1>>
      [] end = "RejectedTimeout" -> <<0, 1>>
      [] end = "RejectedCancelled" -> <<0, 0>>

\* C20: the two versions of ServeHTTP are equivalent.  Whichever version
\* runs, a request whose selects were resolved in a given way gets the
\* calls that the version of maxconnections.go makes for it; and when no
\* request is in the middle of the admission code, running holds one
\* element per request in the handler and queue one per waiting request.
VersionsAgree ==
    /\ \A r \in Requests :
          pc[r] \in Terminal =>
              <<handlerCalls[r], overloadCalls[r]>> = InlineOutcome(pc[r])
    /\ (\A r \in Requests : Settled(r)) =>
          /\ running = Cardinality(Executing)
          /\ queue = Cardinality(Waiting)

=============================================================================
